---- MODULE Spec2Model ----
(***************************************************************************)
(* Ember.Validations: the validation mixin (validations.js) together with  *)
(* the focus tracking that the control views get (part_000).               *)
(*                                                                         *)
(* One validated object is modelled, with two input widgets bound to its   *)
(* attributes.  Property names are sequences of tokens, so that the string *)
(* operations of the handlers (key + 'shouldValidate', key.replace(...))   *)
(* are computed, not assumed.  A string value is modelled by its length.   *)
(***************************************************************************)
EXTENDS Integers, Sequences, FiniteSets, TLC

\* ------------------------------------------------------------------ bounds
\* the calls of validateProperty that may be in progress at once (the call stack)
MaxNesting == 3

\* longest string value an attribute is given
MaxLen == 2

\* ------------------------------------------------------- names and values
\* the token standing for the substring 'shouldValidate' of a property name
SV == "shouldValidate"

\* the attribute 'name'
Name == <<"name">>

\* the attribute 'shouldValidateEmail' (a name that itself contains the substring)
Flagged == <<SV, "Email">>

Attrs == {Name, Flagged}

\* the input widgets (text fields, checkboxes, ...)
Widgets == {"first", "second"}

\* the value undefined, and the string values by length
Undefined == [defined |-> FALSE, len |-> 0]
Str(n) == [defined |-> TRUE, len |-> n]
Values == {Undefined} \cup {Str(n) : n \in 1..MaxLen}

\* ------------------------------------------------------------------ rules
Presence == [name |-> "presence", moreThan |-> 0, lessThan |-> 0]
LengthRule == [name |-> "length", moreThan |-> 1, lessThan |-> 3]
Unknown == [name |-> "unheardOf", moreThan |-> 0, lessThan |-> 0]

\* a validations hash: its keys in declaration order, and each key's rules in
\* declaration order (an attribute that is no key has no rules)
Hash(keys, rules) == [keys |-> keys, rules |-> rules]

OnlyName == Hash(<<Name>>, [a \in Attrs |-> IF a = Name THEN <<Presence>> ELSE <<>>])
Both == Hash(<<Name, Flagged>>,
             [a \in Attrs |-> IF a = Name THEN <<Presence, LengthRule>> ELSE <<Presence>>])
Misconfigured == Hash(<<Name, Flagged>>,
                      [a \in Attrs |-> IF a = Name THEN <<Presence>> ELSE <<Unknown>>])

Hashes == {OnlyName, Both, Misconfigured}

Declared(hash) == {hash.keys[i] : i \in 1..Len(hash.keys)}

\* ------------------------------------------------------- Ember.ValidationErrors
\* attribute -> ordered messages; an attribute without messages has <<>>
NoErrors == [a \in Attrs |-> <<>>]

ErrorsAdd(errs, a, msg) == IF a \in DOMAIN errs THEN [errs EXCEPT ![a] = Append(@, msg)] ELSE errs

ErrorsRemove(errs, a) == IF a \in DOMAIN errs THEN [errs EXCEPT ![a] = <<>>] ELSE errs

ErrorsClear(errs) == [a \in DOMAIN errs |-> <<>>]

RECURSIVE SumLen(_, _)
SumLen(errs, as) ==
    IF as = {} THEN 0
    ELSE LET a == CHOOSE x \in as : TRUE IN Len(errs[a]) + SumLen(errs, as \ {a})

\* validationErrors.length
ErrorsLength(errs) == SumLen(errs, DOMAIN errs)

\* validationErrors.<attribute>.length (undefined, read as 0, for a name without entry)
AttrLength(errs, a) == IF a \in DOMAIN errs THEN Len(errs[a]) ELSE 0

\* ------------------------------------------------------------ Ember.Validators
\* getValidator(name, options): the built-in of that name, or none (it throws)
KnownValidators == {"presence", "length"}
HasValidator(rule) == rule.name \in KnownValidators

\* the messages validator.validate(obj, attr, value) adds under attr
StrLen(v) == IF v.defined THEN v.len ELSE 0
Messages(rule, v) ==
    IF rule.name = "presence"
    THEN (IF v.defined THEN <<>> ELSE <<"blank">>)
    ELSE (IF StrLen(v) <= rule.moreThan THEN <<"tooShort">> ELSE <<>>)
         \o (IF StrLen(v) >= rule.lessThan THEN <<"tooLong">> ELSE <<>>)

RECURSIVE AddAll(_, _, _)
AddAll(errs, a, msgs) ==
    IF msgs = <<>> THEN errs ELSE AddAll(ErrorsAdd(errs, a, Head(msgs)), a, Tail(msgs))

\* ------------------------------------------------------------ the mixin's state
VARIABLES
    validations,            \* the validations hash
    value,                  \* attribute -> its value
    validationErrors,       \* the Ember.ValidationErrors of the object
    _didValidateAllOnce,     \* this._didValidateAllOnce
    flags,                  \* '<attribute>shouldValidate' -> the object's property of that name
    binding,                \* widget -> the attribute its valueBinding (or checkedBinding) is from
    _didFocusIn,             \* widget -> its _didFocusIn
    _didFocusOut,            \* widget -> its _didFocusOut
    observerValueChange,    \* attribute -> observers added under '_observer<attribute>_value_change'
    observerFocusOut,       \* attribute -> observers added under '_observer<attribute>_focus_out'
    validateOnValueChange,  \* this.validateOnValueChange
    validateOnFocusOut,     \* this.validateOnFocusOut
    isValidCache,           \* the cached value of the computed property isValid
    last,                   \* the operation that ran last and what it returned
    nesting,                \* the calls of validateProperty that have not returned yet
    frame                   \* where the innermost of them is: in its rule loop, or done

vars == <<validations, value, validationErrors, _didValidateAllOnce, flags, binding, _didFocusIn,
          _didFocusOut, observerValueChange, observerFocusOut, validateOnValueChange,
          validateOnFocusOut, isValidCache, last, nesting, frame>>

\* property + 'shouldValidate'
ShouldValidatePath(property) == property \o <<SV>>

Keys == {ShouldValidatePath(a) : a \in Attrs}

\* this.get(key) of a flag: undefined (falsy) when the object has no such property
GetFlag(fl, key) == IF key \in DOMAIN fl THEN fl[key] ELSE FALSE

\* String.prototype.replace('shouldValidate', ''): removes the first occurrence
RECURSIVE ReplaceFirst(_)
ReplaceFirst(path) ==
    IF path = <<>> THEN <<>>
    ELSE IF Head(path) = SV THEN Tail(path)
    ELSE <<Head(path)>> \o ReplaceFirst(Tail(path))

\* The progress of a validation: the errors so far, whether getValidator threw,
\* whether dependents of validationErrors.length were told of a change and what
\* the collection held each time they were, how many times validateProperty was
\* entered, how many times a rule was handed this.get(attribute), and how many
\* times propertyWillChange and propertyDidChange('validationErrors') were called.
Pass(errs) == [errors |-> errs, threw |-> FALSE, notified |-> FALSE, told |-> {},
               calls |-> 0, read |-> 0, will |-> 0, did |-> 0]

\* the collection becomes errs; the dependents of its length are told if changed
Mutated(st, errs, changed) ==
    [st EXCEPT !.errors = errs,
               !.notified = @ \/ changed,
               !.told = IF changed THEN @ \cup {errs} ELSE @]

\* the rule loop passing over a rule that has no validator
RECURSIVE SkipsUnknownRule(_, _, _, _)
SkipsUnknownRule(st, a, rules, v) ==
    IF rules = <<>> THEN st
    ELSE IF ~HasValidator(Head(rules)) THEN SkipsUnknownRule(st, a, Tail(rules), v)
    ELSE LET msgs == Messages(Head(rules), v)
         IN SkipsUnknownRule(Mutated([st EXCEPT !.read = @ + 1], AddAll(st.errors, a, msgs),
                                     msgs # <<>>),
                             a, Tail(rules), v)

\* the rule loop of _validateProperty
RECURSIVE RunRules(_, _, _, _)
RunRules(st, a, rules, v) ==
    IF rules = <<>> THEN st
    ELSE IF ~HasValidator(Head(rules)) THEN [st EXCEPT !.threw = TRUE]
    ELSE LET msgs == Messages(Head(rules), v)
         IN RunRules(Mutated([st EXCEPT !.read = @ + 1], AddAll(st.errors, a, msgs), msgs # <<>>),
                     a, Tail(rules), v)

RulesOf(hash, a) == IF a \in DOMAIN hash.rules THEN hash.rules[a] ELSE <<>>
ValueOf(vals, a) == IF a \in DOMAIN vals THEN vals[a] ELSE Undefined

\* _validateProperty with errors.clear() for errors.remove(attribute)
ClearsEveryAttribute(st, hash, vals, a) ==
    RunRules(Mutated(st, ErrorsClear(st.errors), ErrorsLength(st.errors) > 0),
             a, RulesOf(hash, a), ValueOf(vals, a))

\* _validateProperty with a loop that stops after the first rule
FirstRuleOnly(st, hash, vals, a) ==
    LET rules == RulesOf(hash, a)
    IN RunRules(Mutated(st, ErrorsRemove(st.errors, a), AttrLength(st.errors, a) > 0),
                a, IF rules = <<>> THEN <<>> ELSE <<Head(rules)>>, ValueOf(vals, a))

\* errors.remove(attribute), then every rule of the attribute
_validateProperty(st, hash, vals, a) ==
    RunRules(Mutated(st, ErrorsRemove(st.errors, a), AttrLength(st.errors, a) > 0),
             a, RulesOf(hash, a), ValueOf(vals, a))

\* _validateProperty returning the validity of the whole object
ReturnsObjectValidity(errs, a) == ErrorsLength(errs) = 0

\* what _validateProperty returns: !get(this, 'validationErrors.' + attribute + '.length')
PropertyIsValid(errs, a) == AttrLength(errs, a) = 0

\* this.propertyWillChange('validationErrors')
propertyWillChange(st) == [st EXCEPT !.will = @ + 1]

\* this.propertyDidChange('validationErrors'): dependents are told
propertyDidChange(st) ==
    [st EXCEPT !.did = @ + 1, !.notified = TRUE, !.told = @ \cup {st.errors}]

validateProperty(st, hash, vals, a) ==
    LET r == _validateProperty(propertyWillChange([st EXCEPT !.calls = @ + 1]), hash, vals, a)
    IN IF r.threw THEN r ELSE propertyDidChange(r)

\* the loop of validate() over the keys of the hash
RECURSIVE ValidateKeys(_, _, _, _)
ValidateKeys(st, hash, vals, keys) ==
    IF keys = <<>> \/ st.threw THEN st
    ELSE ValidateKeys(_validateProperty(st, hash, vals, Head(keys)), hash, vals, Tail(keys))

\* validate() without errors.clear()
PassWithoutClear(errs, hash, vals) ==
    LET r == ValidateKeys(propertyWillChange(Pass(errs)), hash, vals, hash.keys)
    IN IF r.threw THEN r ELSE propertyDidChange(r)

\* validate() without errors.clear(), running the rule loop of each key directly
RECURSIVE RulesOfKeys(_, _, _, _)
RulesOfKeys(st, hash, vals, keys) ==
    IF keys = <<>> \/ st.threw THEN st
    ELSE RulesOfKeys(RunRules(st, Head(keys), RulesOf(hash, Head(keys)), ValueOf(vals, Head(keys))),
                     hash, vals, Tail(keys))

PassAppending(errs, hash, vals) ==
    LET r == RulesOfKeys(propertyWillChange(Pass(errs)), hash, vals, hash.keys)
    IN IF r.threw THEN r ELSE propertyDidChange(r)

\* validate() from propertyWillChange to propertyDidChange
ValidatePass(errs, hash, vals) ==
    LET cleared == Mutated(propertyWillChange(Pass(errs)), ErrorsClear(errs), ErrorsLength(errs) > 0)
        r == ValidateKeys(cleared, hash, vals, hash.keys)
    IN IF r.threw THEN r ELSE propertyDidChange(r)

\* isValid with the comparison inverted
IsValidInverted(errs) == ErrorsLength(errs) # 0

\* the computed property isValid: its function, and a get through the cache
isValid(errs) == ErrorsLength(errs) = 0
Cached(b) == IF b THEN "true" ELSE "false"
GetIsValid(cache, errs) == IF cache = "none" THEN isValid(errs) ELSE cache = "true"

\* the cache after an operation: dropped when dependents were told of a change
CacheAfter(cache, st) == IF st.notified THEN "none" ELSE cache

\* _onValueChangeValidateAttribute without the test of the shouldValidate flag
ValueChangeAfterValidateOnly(st, hash, vals, fl, once, property) ==
    IF once THEN validateProperty(st, hash, vals, property) ELSE st

\* _onValueChangeValidateAttribute with && for ||
ValueChangeNeedsBoth(st, hash, vals, fl, once, property) ==
    IF GetFlag(fl, ShouldValidatePath(property)) /\ once
    THEN validateProperty(st, hash, vals, property)
    ELSE st

_onValueChangeValidateAttribute(st, hash, vals, fl, once, property) ==
    IF GetFlag(fl, ShouldValidatePath(property)) \/ once
    THEN validateProperty(st, hash, vals, property)
    ELSE st

_onFocusOutValidateAttribute(st, hash, vals, fl, once, shouldValidatePath) ==
    IF GetFlag(fl, shouldValidatePath) \/ once
    THEN validateProperty(st, hash, vals, ReplaceFirst(shouldValidatePath))
    ELSE st

\* every observer added on the property runs, until one throws
RECURSIVE FireValueChange(_, _, _, _, _, _, _)
FireValueChange(n, st, hash, vals, fl, once, property) ==
    IF n = 0 \/ st.threw THEN st
    ELSE FireValueChange(n - 1, _onValueChangeValidateAttribute(st, hash, vals, fl, once, property),
                         hash, vals, fl, once, property)

RECURSIVE FireFocusOut(_, _, _, _, _, _, _)
FireFocusOut(n, st, hash, vals, fl, once, key) ==
    IF n = 0 \/ st.threw THEN st
    ELSE FireFocusOut(n - 1, _onFocusOutValidateAttribute(st, hash, vals, fl, once, key),
                      hash, vals, fl, once, key)

\* the value-change branch without the test of this[observerKey]
AddsValueChangeObserverAgain(enabled, obs, property) ==
    IF enabled THEN [obs EXCEPT ![property] = @ + 1] ELSE obs

\* the value-change branch without the test of validateOnValueChange
AddsValueChangeObserverAlways(enabled, obs, property) ==
    IF obs[property] = 0 THEN [obs EXCEPT ![property] = @ + 1] ELSE obs

\* _setupAutoValidateObserves: one pass over the keys of the hash
AddValueChangeObserver(enabled, obs, property) ==
    IF enabled /\ obs[property] = 0 THEN [obs EXCEPT ![property] = @ + 1] ELSE obs

AddFocusOutObserver(enabled, obs, property) ==
    IF enabled /\ obs[property] = 0 THEN [obs EXCEPT ![property] = @ + 1] ELSE obs

RECURSIVE SetupValueChange(_, _, _)
SetupValueChange(enabled, obs, keys) ==
    IF keys = <<>> THEN obs
    ELSE SetupValueChange(enabled, AddValueChangeObserver(enabled, obs, Head(keys)), Tail(keys))

RECURSIVE SetupFocusOut(_, _, _)
SetupFocusOut(enabled, obs, keys) ==
    IF keys = <<>> THEN obs
    ELSE SetupFocusOut(enabled, AddFocusOutObserver(enabled, obs, Head(keys)), Tail(keys))

\* _setupShouldValidate negating the flag of the object instead of setting it
TogglesFlag(fl, focusIn, focusOut, property) ==
    IF ~focusIn \/ ~focusOut THEN fl
    ELSE [fl EXCEPT ![ShouldValidatePath(property)] = ~@]

\* _setupShouldValidate returning only when neither event happened
SetsFlagOnEitherEvent(fl, focusIn, focusOut, property) ==
    IF ~focusIn /\ ~focusOut THEN fl
    ELSE [fl EXCEPT ![ShouldValidatePath(property)] = TRUE]

\* the widget's _setupShouldValidate: the flags of the object after it ran
_setupShouldValidate(fl, focusIn, focusOut, property) ==
    IF ~focusIn \/ ~focusOut THEN fl
    ELSE [fl EXCEPT ![ShouldValidatePath(property)] = TRUE]

Ret(st, b) == IF st.threw THEN "threw" ELSE Cached(b)
\* What is remembered of the operation that ran last: whether it was validate() or
\* validateProperty(), what it returned (or that it threw), how many times
\* validateProperty was entered by observers, how many times it called
\* propertyWillChange and propertyDidChange, and, of a validate(), whether the
\* operation before it was a validate() too.
Done(op, ret, calls, st, again) ==
    [op |-> op, ret |-> ret, calls |-> calls, will |-> st.will, did |-> st.did, again |-> again]

\* ------------------------------------------------------------------ Init
\* Ember.Object.create(Ember.Validations, {...}): init() has set up the errors and
\* has run _setupAutoValidateObserves once.
Init ==
    /\ validations \in Hashes
    /\ value \in [Attrs -> Values]
    /\ validateOnValueChange \in BOOLEAN
    /\ validateOnFocusOut \in BOOLEAN
    /\ validationErrors = NoErrors
    /\ _didValidateAllOnce = FALSE
    /\ flags = [k \in Keys |-> FALSE]
    /\ binding \in {[w \in Widgets |-> IF w = "first" THEN Name ELSE a] : a \in Attrs}
    /\ _didFocusIn = [w \in Widgets |-> FALSE]
    /\ _didFocusOut = [w \in Widgets |-> FALSE]
    /\ observerValueChange =
           SetupValueChange(validateOnValueChange, [a \in Attrs |-> 0], validations.keys)
    /\ observerFocusOut =
           SetupFocusOut(validateOnFocusOut, [a \in Attrs |-> 0], validations.keys)
    /\ isValidCache = "none"
    /\ last = Done("other", "none", 0, Pass(validationErrors), FALSE)
    /\ nesting = 0
    /\ frame = "idle"

\* --------------------------------------------------------------- actions
\* validate() setting _didValidateAllOnce at its end, when the pass has completed
ValidateSetsLatchLast ==
    LET r == ValidatePass(validationErrors, validations, value)
        ret == isValid(r.errors)
    IN /\ _didValidateAllOnce' = (_didValidateAllOnce \/ ~r.threw)
       /\ validationErrors' = r.errors
       /\ isValidCache' = IF r.threw THEN CacheAfter(isValidCache, r) ELSE Cached(ret)
       /\ last' = Done("validate", Ret(r, ret), 0, r, last.op = "validate")
       /\ UNCHANGED <<nesting, frame, validations, value, flags, binding, _didFocusIn, _didFocusOut, observerValueChange,
                      observerFocusOut, validateOnValueChange, validateOnFocusOut>>

\* obj.validate()
Validate ==
    LET r == ValidatePass(validationErrors, validations, value)
        ret == isValid(r.errors)
    IN /\ _didValidateAllOnce' = TRUE
       /\ validationErrors' = r.errors
       /\ isValidCache' = IF r.threw THEN CacheAfter(isValidCache, r) ELSE Cached(ret)
       /\ last' = Done("validate", Ret(r, ret), 0, r, last.op = "validate")
       /\ UNCHANGED <<nesting, frame, validations, value, flags, binding, _didFocusIn, _didFocusOut, observerValueChange,
                      observerFocusOut, validateOnValueChange, validateOnFocusOut>>

\* validateProperty(a) setting _didValidateAllOnce as validate() does
ValidatePropertySetsLatch(a) ==
    LET r == validateProperty(Pass(validationErrors), validations, value, a)
    IN /\ _didValidateAllOnce' = TRUE
       /\ validationErrors' = r.errors
       /\ isValidCache' = CacheAfter(isValidCache, r)
       /\ last' = Done("validateProperty", Ret(r, PropertyIsValid(r.errors, a)), 0, r, FALSE)
       /\ UNCHANGED <<nesting, frame, validations, value, flags, binding, _didFocusIn, _didFocusOut,
                      observerValueChange, observerFocusOut, validateOnValueChange,
                      validateOnFocusOut>>

\* obj.validateProperty(a)
ValidateProperty(a) ==
    LET r == validateProperty(Pass(validationErrors), validations, value, a)
    IN /\ validationErrors' = r.errors
       /\ isValidCache' = CacheAfter(isValidCache, r)
       /\ last' = Done("validateProperty", Ret(r, PropertyIsValid(r.errors, a)), 0, r, FALSE)
       /\ UNCHANGED <<nesting, frame, validations, value, _didValidateAllOnce, flags, binding, _didFocusIn, _didFocusOut,
                      observerValueChange, observerFocusOut, validateOnValueChange,
                      validateOnFocusOut>>

\* obj.set(a, v) with a new value: the observers of a run
SetValue(a, v) ==
    /\ v # value[a]
    /\ value' = [value EXCEPT ![a] = v]
    /\ LET r == FireValueChange(observerValueChange[a], Pass(validationErrors), validations,
                                value', flags, _didValidateAllOnce, a)
       IN /\ validationErrors' = r.errors
          /\ isValidCache' = CacheAfter(isValidCache, r)
          /\ last' = Done("other", IF r.threw THEN "threw" ELSE "none", r.calls, r, FALSE)
    /\ UNCHANGED <<nesting, frame, validations, _didValidateAllOnce, flags, binding, _didFocusIn, _didFocusOut,
                   observerValueChange, observerFocusOut, validateOnValueChange,
                   validateOnFocusOut>>

\* obj.set('validations', hash) with another hash: _setupAutoValidateObserves runs
SetValidations(hash) ==
    /\ hash # validations
    /\ validations' = hash
    /\ observerValueChange' = SetupValueChange(validateOnValueChange, observerValueChange, hash.keys)
    /\ observerFocusOut' = SetupFocusOut(validateOnFocusOut, observerFocusOut, hash.keys)
    /\ last' = Done("other", "none", 0, Pass(validationErrors), FALSE)
    /\ UNCHANGED <<nesting, frame, value, validationErrors, _didValidateAllOnce, flags, binding, _didFocusIn, _didFocusOut,
                   validateOnValueChange, validateOnFocusOut, isValidCache>>

\* a focus event on widget w has set the widget's flags to focusIn and focusOut.
\* Ember's set tells the observers of a property only when its value changed: when
\* a widget flag changed _setupShouldValidate runs, and when that changed the flag
\* of the object the observers of the flag run.
Focus(w, focusIn, focusOut) ==
    LET changed == focusIn # _didFocusIn \/ focusOut # _didFocusOut
        fl == IF changed
              THEN _setupShouldValidate(flags, focusIn[w], focusOut[w], binding[w])
              ELSE flags
        key == ShouldValidatePath(binding[w])
        r == IF fl # flags
             THEN FireFocusOut(observerFocusOut[binding[w]], Pass(validationErrors),
                               validations, value, fl, _didValidateAllOnce, key)
             ELSE Pass(validationErrors)
    IN /\ _didFocusIn' = focusIn
       /\ _didFocusOut' = focusOut
       /\ flags' = fl
       /\ validationErrors' = r.errors
       /\ isValidCache' = CacheAfter(isValidCache, r)
       /\ last' = Done("other", IF r.threw THEN "threw" ELSE "none", r.calls, r, FALSE)
       /\ UNCHANGED <<nesting, frame, validations, value, _didValidateAllOnce, binding, observerValueChange,
                      observerFocusOut, validateOnValueChange, validateOnFocusOut>>

FocusIn(w) == Focus(w, [_didFocusIn EXCEPT ![w] = TRUE], _didFocusOut)

FocusOut(w) == Focus(w, _didFocusIn, [_didFocusOut EXCEPT ![w] = TRUE])

\* obj.get('isValid')
ReadIsValid ==
    LET b == GetIsValid(isValidCache, validationErrors)
    IN /\ isValidCache' = Cached(b)
       /\ last' = Done("other", "none", 0, Pass(validationErrors), FALSE)
       /\ UNCHANGED <<nesting, frame, validations, value, validationErrors, _didValidateAllOnce, flags,
                      binding, _didFocusIn, _didFocusOut, observerValueChange, observerFocusOut,
                      validateOnValueChange, validateOnFocusOut>>

Next ==
    \/ Validate
    \/ \E a \in Attrs : ValidateProperty(a)
    \/ \E a \in Attrs, v \in Values : SetValue(a, v)
    \/ \E hash \in Hashes : SetValidations(hash)
    \/ \E w \in Widgets : FocusIn(w)
    \/ \E w \in Widgets : FocusOut(w)
    \/ ReadIsValid

Spec == Init /\ [][Next]_vars

\* ------------------------------------------- validators that write the attribute
\* Custom rules whose validator function(obj, attr, value) calls obj.set(attr, ...):
\* 'rewrite' always sets a value other than the current one, 'normalise' sets the
\* one-character string (no change once the value is that string).
Rewrite == [name |-> "rewrite", moreThan |-> 0, lessThan |-> 0]
Normalise == [name |-> "normalise", moreThan |-> 0, lessThan |-> 0]

Rewriting == Hash(<<Name>>, [a \in Attrs |-> IF a = Name THEN <<Rewrite>> ELSE <<>>])
Normalising == Hash(<<Name>>, [a \in Attrs |-> IF a = Name THEN <<Normalise>> ELSE <<>>])

\* the value the validator of the rule sets the attribute to
Written(rule, v) ==
    IF rule.name = "rewrite" THEN Str((StrLen(v) % MaxLen) + 1) ELSE Str(1)

\* _onValueChangeValidateAttribute, run by obj.set(property, ...) if the property
\* has a value-change observer: whether it calls validateProperty(property)
EntersValidateProperty(n, fl, once, property) ==
    n > 0 /\ (GetFlag(fl, ShouldValidatePath(property)) \/ once)

\* an object whose 'name' has a writing validator, at rest: wired or not, touched
\* or not, fully validated before or not
InitWriting ==
    /\ validations \in {Rewriting, Normalising}
    /\ value \in [Attrs -> Values]
    /\ validateOnValueChange \in BOOLEAN
    /\ validateOnFocusOut = FALSE
    /\ validationErrors = NoErrors
    /\ _didValidateAllOnce \in BOOLEAN
    /\ flags \in {[k \in Keys |-> k = ShouldValidatePath(Name) /\ b] : b \in BOOLEAN}
    /\ binding = [w \in Widgets |-> Name]
    /\ _didFocusIn = [w \in Widgets |-> flags[ShouldValidatePath(Name)]]
    /\ _didFocusOut = [w \in Widgets |-> flags[ShouldValidatePath(Name)]]
    /\ observerValueChange =
           SetupValueChange(validateOnValueChange, [a \in Attrs |-> 0], validations.keys)
    /\ observerFocusOut =
           SetupFocusOut(validateOnFocusOut, [a \in Attrs |-> 0], validations.keys)
    /\ isValidCache = "none"
    /\ last = Done("other", "none", 0, Pass(validationErrors), FALSE)
    /\ nesting = 0
    /\ frame = "idle"

\* obj.validateProperty('name') is called on the object at rest: propertyWillChange,
\* errors.remove, and the rule loop is about to run the validator
CallValidateProperty ==
    /\ nesting = 0
    /\ nesting' = 1
    /\ frame' = "rules"
    /\ validationErrors' = ErrorsRemove(validationErrors, Name)
    /\ UNCHANGED <<validations, value, _didValidateAllOnce, flags, binding, _didFocusIn,
                   _didFocusOut, observerValueChange, observerFocusOut, validateOnValueChange,
                   validateOnFocusOut, isValidCache, last>>

\* the validator with a per-attribute guard: no validateProperty is entered for
\* an attribute while one is in progress
ValidatorRunsGuarded ==
    LET v == Written(RulesOf(validations, Name)[1], value[Name])
    IN /\ frame = "rules"
       /\ value' = [value EXCEPT ![Name] = v]
       /\ frame' = "done"
       /\ UNCHANGED <<nesting, validationErrors>>
       /\ UNCHANGED <<validations, _didValidateAllOnce, flags, binding, _didFocusIn,
                      _didFocusOut, observerValueChange, observerFocusOut,
                      validateOnValueChange, validateOnFocusOut, isValidCache, last>>

\* validator.validate(this, 'name', this.get('name')) of the innermost call runs
\* and calls obj.set('name', v). If the value changes, the observers of 'name' run
\* before set returns, and the handler may call validateProperty('name'): a new
\* call, inside the one whose validator is running. Otherwise the validator returns.
ValidatorRuns ==
    LET v == Written(RulesOf(validations, Name)[1], value[Name])
        enters == /\ v # value[Name]
                  /\ EntersValidateProperty(observerValueChange[Name], flags,
                                            _didValidateAllOnce, Name)
    IN /\ frame = "rules"
       /\ enters => nesting < MaxNesting
       /\ value' = [value EXCEPT ![Name] = v]
       /\ nesting' = IF enters THEN nesting + 1 ELSE nesting
       /\ frame' = IF enters THEN "rules" ELSE "done"
       /\ validationErrors' = IF enters THEN ErrorsRemove(validationErrors, Name)
                              ELSE validationErrors
       /\ UNCHANGED <<validations, _didValidateAllOnce, flags, binding, _didFocusIn,
                      _didFocusOut, observerValueChange, observerFocusOut,
                      validateOnValueChange, validateOnFocusOut, isValidCache, last>>

\* the innermost call has run its rules: propertyDidChange, and it returns to the
\* set of the validator of the call around it, which returns as well
Returns ==
    /\ frame = "done"
    /\ nesting' = nesting - 1
    /\ frame' = IF nesting = 1 THEN "idle" ELSE "done"
    /\ isValidCache' = "none"
    /\ UNCHANGED <<validations, value, validationErrors, _didValidateAllOnce, flags, binding,
                   _didFocusIn, _didFocusOut, observerValueChange, observerFocusOut,
                   validateOnValueChange, validateOnFocusOut, last>>

NextWriting == CallValidateProperty \/ ValidatorRuns \/ Returns

SpecWriting == InitWriting /\ [][NextWriting]_vars

\* ------------------------------------------------------------ the claims
\* a rule is violated by a value when its validator adds a message for it
Violated(rule, v) == HasValidator(rule) /\ Messages(rule, v) # <<>>

\* no rule the hash gives attribute a is violated by a's value
RulesHold(hash, vals, a) ==
    \A i \in 1..Len(RulesOf(hash, a)) : ~Violated(RulesOf(hash, a)[i], vals[a])

\* what obj.get('isValid') returns in this state
IsValidNow == GetIsValid(isValidCache, validationErrors)

\* the gate of the auto-validation of attribute a
Gate(a) == GetFlag(flags, ShouldValidatePath(a)) \/ _didValidateAllOnce

\* C1: in every reachable state isValid is true exactly when validationErrors
\* holds no message, of any attribute.
C1_IsValidIffNoMessages ==
    IsValidNow <=> (\A a \in Attrs : validationErrors[a] = <<>>)

\* C1 witness: no validate() has run, an observer has run validateProperty(), a
\* message is recorded and isValid is false.
C1_Witness ==
    /\ last.calls > 0
    /\ validationErrors[Name] # <<>>
    /\ ~_didValidateAllOnce
    /\ ~IsValidNow

\* C2: after validate() returned, each declared attribute has no message exactly
\* when none of its rules is violated by its value, and validate() returned true
\* (and isValid is true) exactly when that is so of every declared attribute.
C2_ValidateIsExact ==
    (last.op = "validate" /\ last.ret \in {"true", "false"}) =>
        /\ \A a \in Declared(validations) :
               validationErrors[a] = <<>> <=> RulesHold(validations, value, a)
        /\ last.ret = "true" <=> \A a \in Declared(validations) : RulesHold(validations, value, a)
        /\ IsValidNow <=> last.ret = "true"

\* C2 witness: validate() returned false with one declared attribute in error and
\* the other one free of errors.
C2_Witness ==
    /\ last.op = "validate"
    /\ last.ret = "false"
    /\ validations = Both
    /\ validationErrors[Name] = <<"tooShort">>
    /\ validationErrors[Flagged] = <<>>

\* C3: when the value of an attribute with a value-change observer changes, the
\* attribute is re-validated exactly when its shouldValidate flag is true or
\* validate() has run; when neither is so (the attribute was never touched and no
\* validate() has run) the value change leaves validationErrors as it was.
C3_ValueChangeGate ==
    [][\A a \in Attrs :
          (value'[a] # value[a]) =>
              /\ observerValueChange[a] > 0 => (last'.calls > 0 <=> Gate(a))
              /\ ~Gate(a) => validationErrors' = validationErrors
              /\ (observerValueChange[a] > 0 /\ Gate(a) /\ last'.ret # "threw") =>
                     /\ validationErrors'[a] = <<>> <=> RulesHold(validations, value', a)
                     /\ \A b \in Attrs \ {a} : validationErrors'[b] = validationErrors[b]
      ]_vars

\* C3 witness: only value-change observers exist, validate() has not run, and a
\* value change of the touched attribute recorded its error.
C3_Witness ==
    /\ validateOnValueChange
    /\ ~validateOnFocusOut
    /\ ~_didValidateAllOnce
    /\ last.calls > 0
    /\ validationErrors[Name] # <<>>

\* the step is the focus-leave of widget w, after its focus-enter, by which the
\* shouldValidate flag of the attribute it is bound to becomes true
TouchedBy(w) ==
    /\ _didFocusIn[w] /\ ~_didFocusOut[w] /\ _didFocusOut'[w]
    /\ ~flags[ShouldValidatePath(binding[w])]
    /\ flags'[ShouldValidatePath(binding[w])]

\* every rule the hash gives attribute a has a validator
Configured(hash, a) == \A i \in 1..Len(RulesOf(hash, a)) : HasValidator(RulesOf(hash, a)[i])

FocusOutValidates(w) ==
    (/\ validateOnFocusOut
     /\ binding[w] \in Declared(validations)
     /\ Configured(validations, binding[w])
     /\ ~RulesHold(validations, value, binding[w])
     /\ TouchedBy(w)) =>
        /\ last'.calls > 0
        /\ validationErrors'[binding[w]] # <<>>
        /\ ~GetIsValid(isValidCache', validationErrors')

\* C4: with validateOnFocusOut, once the widget bound to a declared attribute whose
\* value violates one of its rules has seen focus-enter and then focus-leave, the
\* attribute is re-validated with no explicit call: validationErrors then has a
\* message for it and isValid is false.
C4_FocusOutValidates == [][\A w \in Widgets : FocusOutValidates(w)]_vars

\* C4, of the widgets bound to the attribute 'name' only (whose name does not
\* contain 'shouldValidate'): this much the code does.
C4_FocusOutValidatesName ==
    [][\A w \in Widgets : binding[w] = Name => FocusOutValidates(w)]_vars

\* the state of the focus-out scenario: validations = { name: { presence: true } },
\* validateOnFocusOut, name touched and carrying its presence error (the only
\* error recorded), and the step sets name to a valid value
FocusOutScenarioThenSet ==
    /\ validations = OnlyName
    /\ validateOnFocusOut
    /\ flags[ShouldValidatePath(Name)]
    /\ validationErrors = [NoErrors EXCEPT ![Name] = <<"blank">>]
    /\ ~value[Name].defined
    /\ value'[Name].defined

ErrorsClearedBySet ==
    /\ last'.calls > 0
    /\ validationErrors'[Name] = <<>>
    /\ GetIsValid(isValidCache', validationErrors')

\* C5 as stated: in the focus-out scenario, setting name to a valid value
\* re-validates name, clears its errors and makes isValid true.
C5_AsStated == [][FocusOutScenarioThenSet => ErrorsClearedBySet]_vars

\* C5, amended: the same, when validateOnValueChange is enabled too (the
\* value-change observer is added only then).
C5_SetClearsErrors ==
    [][(validateOnValueChange /\ FocusOutScenarioThenSet) => ErrorsClearedBySet]_vars

\* C5 witness: the scenario's object after name was set to a valid value: no
\* validate() has run, name is touched and valid, no error is left.
C5_Witness ==
    /\ validations = OnlyName
    /\ validateOnFocusOut /\ validateOnValueChange
    /\ flags[ShouldValidatePath(Name)]
    /\ ~_didValidateAllOnce
    /\ last.calls > 0
    /\ value[Name].defined
    /\ validationErrors = NoErrors
    /\ IsValidNow

\* C6: a shouldValidate flag that is true stays true, whatever focus events follow.
C6_ShouldValidateStays == [][\A k \in Keys : flags[k] => flags'[k]]_vars

\* C6 witness: two widgets are bound to 'name'; both have seen focus-enter and
\* focus-leave, and the flag is true.
C6_Witness ==
    /\ \A w \in Widgets : binding[w] = Name /\ _didFocusIn[w] /\ _didFocusOut[w]
    /\ flags[ShouldValidatePath(Name)]

\* the attributes whose messages the step changes
Changed == {b \in Attrs : validationErrors'[b] # validationErrors[b]}

\* C7: validateProperty(A), called or run by an observer, leaves the messages of
\* every other attribute as they were.
C7_OtherAttributesKept ==
    [][/\ \A a \in Attrs : ValidateProperty(a) => Changed \subseteq {a}
       /\ \A a \in Attrs : (value'[a] # value[a]) => Changed \subseteq {a}
       /\ \A w \in Widgets : (_didFocusIn'[w] # _didFocusIn[w] \/ _didFocusOut'[w] # _didFocusOut[w])
                                 => Changed \subseteq {binding[w]}
      ]_vars

\* C7 witness: no validate() has run, yet both attributes carry messages after a
\* validateProperty(): the later call kept what the earlier one recorded.
C7_Witness ==
    /\ last.op = "validateProperty"
    /\ ~_didValidateAllOnce
    /\ \A a \in Attrs : validationErrors[a] # <<>>

\* C8: validateProperty(A) returns true exactly when A has no message after the
\* call, whatever the other attributes have.
C8_ReturnsAttributeValidity ==
    [][\A a \in Attrs :
          (ValidateProperty(a) /\ last'.ret # "threw") =>
              /\ last'.ret \in {"true", "false"}
              /\ last'.ret = "true" <=> validationErrors'[a] = <<>>
      ]_vars

\* C8 witness: validateProperty() returned true while isValid is false.
C8_Witness ==
    /\ last.op = "validateProperty"
    /\ last.ret = "true"
    /\ ~IsValidNow

NoDuplicates(msgs) == \A i, j \in 1..Len(msgs) : msgs[i] = msgs[j] => i = j

\* C9: a validate() right after a validate() leaves the same validationErrors,
\* without duplicated messages, and returns the same.
C9_ValidateIdempotent ==
    [][(last.op = "validate" /\ Validate) =>
           /\ validationErrors' = validationErrors
           /\ last'.ret = last.ret
           /\ \A a \in Attrs : NoDuplicates(validationErrors'[a])
      ]_vars

\* C9 witness: validate() ran twice in succession, with two messages recorded.
C9_Witness ==
    /\ last.op = "validate"
    /\ last.again
    /\ validationErrors[Name] = <<"blank", "tooShort">>

\* the messages the rules of attribute a give for its value, in order
RECURSIVE MessagesOfRules(_, _)
MessagesOfRules(rules, v) ==
    IF rules = <<>> \/ ~HasValidator(Head(rules)) THEN <<>>
    ELSE Messages(Head(rules), v) \o MessagesOfRules(Tail(rules), v)

Expected(a) == MessagesOfRules(RulesOf(validations, a), value[a])

IsPrefix(s, t) == Len(s) <= Len(t) /\ SubSeq(t, 1, Len(s)) = s

\* C10: after a validate(), whatever came before it, validationErrors has messages
\* only of attributes that validations declares, and they are the messages the
\* attribute's rules give for its current value.
C10_NoStaleErrors ==
    last.op = "validate" =>
        \A a \in Attrs :
            /\ a \notin Declared(validations) => validationErrors[a] = <<>>
            /\ IsPrefix(validationErrors[a], Expected(a))
            /\ last.ret # "threw" => validationErrors[a] = Expected(a)

\* C10 witness: validations was reassigned to a hash that no longer declares an
\* attribute it declared before (the attribute's observer is still there), the
\* attribute's value would violate the rules it had, and validate() has run.
C10_Witness ==
    /\ last.op = "validate"
    /\ validations = OnlyName
    /\ observerValueChange[Flagged] > 0
    /\ ~value[Flagged].defined
    /\ validationErrors[Name] # <<>>

\* C11: however often _setupAutoValidateObserves has run, an attribute has at most
\* one value-change observer and at most one focus-out observer, and one value
\* change or one change of a shouldValidate flag enters validateProperty at most once.
C11_OneObserverEach ==
    /\ \A a \in Attrs : observerValueChange[a] <= 1 /\ observerFocusOut[a] <= 1
    /\ last.calls <= 1

\* C11 witness: validations was reassigned (the observers of an attribute that is
\* no longer declared are still there), so the wiring ran again over 'name', and a
\* later change entered validateProperty once.
C11_Witness ==
    /\ validations = OnlyName
    /\ validateOnValueChange /\ validateOnFocusOut
    /\ observerValueChange = [a \in Attrs |-> 1]
    /\ observerFocusOut = [a \in Attrs |-> 1]
    /\ last.calls = 1

\* the step is a focus event: a widget's _didFocusIn or _didFocusOut changes
FocusStep == _didFocusIn' # _didFocusIn \/ _didFocusOut' # _didFocusOut

\* the step changes the value of an attribute
ValueStep == value' # value

\* C12: without validateOnValueChange no value change alters validationErrors,
\* without validateOnFocusOut no focus event (no change of a shouldValidate flag)
\* does, and without both only validate() and validateProperty() alter it.
C12_NoAutoValidationWhenDisabled ==
    [][/\ (~validateOnValueChange /\ ValueStep) => validationErrors' = validationErrors
       /\ (~validateOnFocusOut /\ (FocusStep \/ flags' # flags))
              => validationErrors' = validationErrors
       /\ (~validateOnValueChange /\ ~validateOnFocusOut /\ validationErrors' # validationErrors)
              => last'.op \in {"validate", "validateProperty"}
      ]_vars

\* C12 witness: both triggers are disabled; validate() has run and 'name' is
\* touched, so the gate is open, and the value of 'name' violates a rule, yet no
\* message is recorded for it: its change was not validated.
C12_Witness ==
    /\ ~validateOnValueChange /\ ~validateOnFocusOut
    /\ _didValidateAllOnce
    /\ flags[ShouldValidatePath(Name)]
    /\ Name \in Declared(validations)
    /\ ~RulesHold(validations, value, Name)
    /\ validationErrors[Name] = <<>>

\* the position in the keys of the hash of the first attribute that has a rule
\* without a validator (0 if every rule has one)
RECURSIVE FirstUnconfigured(_, _)
FirstUnconfigured(hash, i) ==
    IF i > Len(hash.keys) THEN 0
    ELSE IF ~Configured(hash, hash.keys[i]) THEN i
    ELSE FirstUnconfigured(hash, i + 1)

\* the rules of a sequence that come before its first rule without a validator
RECURSIVE RulesAhead(_)
RulesAhead(rules) ==
    IF rules = <<>> \/ ~HasValidator(Head(rules)) THEN 0 ELSE 1 + RulesAhead(Tail(rules))

\* the rules a validate() runs before it reaches the first rule without a validator
RECURSIVE RulesAheadInPass(_, _)
RulesAheadInPass(hash, i) ==
    IF i > Len(hash.keys) THEN 0
    ELSE IF ~Configured(hash, hash.keys[i]) THEN RulesAhead(RulesOf(hash, hash.keys[i]))
    ELSE Len(RulesOf(hash, hash.keys[i])) + RulesAheadInPass(hash, i + 1)

\* C13 as stated: a validate() or validateProperty() that meets a rule without a
\* validator throws before the value of any attribute was handed to a validator.
C13_ThrowsBeforeAnyValue ==
    [][/\ (Validate /\ last'.ret = "threw")
              => ValidatePass(validationErrors, validations, value).read = 0
       /\ \A a \in Attrs : (ValidateProperty(a) /\ last'.ret = "threw")
              => validateProperty(Pass(validationErrors), validations, value, a).read = 0
      ]_vars

\* C13: validate() throws exactly when a declared attribute has a rule without a
\* validator, and validateProperty(A) exactly when A has one: the rule is not
\* passed over. The error is raised when the pass reaches the rule, before the
\* value is handed to that rule: the rules declared before it have been run on
\* their values, the messages of the attributes up to it are recorded and the
\* attributes after it are left cleared.
C13_ThrowsAtResolution ==
    [][/\ Validate =>
            LET i == FirstUnconfigured(validations, 1)
            IN /\ last'.ret = "threw" <=> i > 0
               /\ i > 0 =>
                    /\ ValidatePass(validationErrors, validations, value).read
                           = RulesAheadInPass(validations, 1)
                    /\ \A j \in 1..Len(validations.keys) :
                           validationErrors'[validations.keys[j]] =
                               IF j <= i THEN Expected(validations.keys[j]) ELSE <<>>
       /\ \A a \in Attrs : ValidateProperty(a) =>
            /\ last'.ret = "threw" <=> ~Configured(validations, a)
            /\ ~Configured(validations, a) =>
                    /\ validateProperty(Pass(validationErrors), validations, value, a).read
                           = RulesAhead(RulesOf(validations, a))
                    /\ validationErrors'[a] = Expected(a)
      ]_vars

\* C13 witness: a validate() threw, and a message of an attribute declared before
\* the rule without a validator is recorded.
C13_Witness ==
    /\ last.op = "validate" /\ last.ret = "threw"
    /\ FirstUnconfigured(validations, 1) = 2
    /\ validationErrors[validations.keys[1]] # <<>>

\* what a validate() that ran to its end leaves in the collection
Repopulated == [a \in Attrs |-> IF a \in Declared(validations) THEN Expected(a) ELSE <<>>]

\* C14: whenever, in the course of a validate(), the dependents of
\* validationErrors.length (isValid among them) are told of a change, the
\* collection holds what the whole pass leaves in it: none of them is told while
\* the collection is cleared and not yet fully repopulated.
C14_ValidateIsAtomic ==
    [][Validate =>
          \A told \in ValidatePass(validationErrors, validations, value).told :
              told = Repopulated
      ]_vars

\* C15: every validate() and validateProperty(), called or run by an observer,
\* calls propertyWillChange('validationErrors') once and propertyDidChange once:
\* a validate() one pair for its whole pass, and every will-change has its
\* did-change when the operation is over.
C15_OneBracketEach ==
    /\ last.did = last.will
    /\ last.op \in {"validate", "validateProperty"} => last.will = 1
    /\ last.op = "other" => last.will = last.calls

\* widget w has had a focus-enter and a focus-leave
BothEvents(w) == _didFocusIn[w] /\ _didFocusOut[w]

\* C16: a shouldValidate flag is true only if a widget bound to its attribute has
\* had both a focus-enter and a focus-leave; it becomes true on the step on which
\* such a widget gets the second of the two, whichever that is, and a widget that
\* has had only one of them sets nothing.
C16_ShouldValidateNeedsBoth ==
    [][/\ \A k \in Keys : flags[k] =>
              \E w \in Widgets : ShouldValidatePath(binding[w]) = k /\ BothEvents(w)
       /\ \A k \in Keys : (~flags[k] /\ flags'[k]) =>
              \E w \in Widgets : /\ ShouldValidatePath(binding[w]) = k
                                 /\ ~BothEvents(w)
                                 /\ _didFocusIn'[w] /\ _didFocusOut'[w]
       /\ \A w \in Widgets : (~BothEvents(w) /\ _didFocusIn'[w] /\ _didFocusOut'[w])
              => flags'[ShouldValidatePath(binding[w])]
       /\ (\A w \in Widgets : (_didFocusIn'[w] /\ _didFocusOut'[w]) => BothEvents(w))
              => flags' = flags
      ]_vars

\* C16 witness: the first widget has had both events and the flag of its attribute
\* is true; the second widget has had a focus-leave only and the flag of its
\* attribute is still false.
C16_Witness ==
    /\ _didFocusIn["first"] /\ _didFocusOut["first"]
    /\ flags[ShouldValidatePath(binding["first"])]
    /\ ~_didFocusIn["second"] /\ _didFocusOut["second"]
    /\ binding["second"] # binding["first"]
    /\ ~flags[ShouldValidatePath(binding["second"])]

\* the focus-out observer of attribute a runs with its gate open: the shouldValidate
\* flag of a turns true on this step and a has a focus-out observer
FocusOutHandlerRuns(a) ==
    /\ observerFocusOut[a] > 0
    /\ ~flags[ShouldValidatePath(a)]
    /\ flags'[ShouldValidatePath(a)]

\* C17: the focus-out handler run for the key A + 'shouldValidate' of a declared
\* attribute A validates exactly A, also when the name of A contains
\* 'shouldValidate': the collection afterwards is the one validateProperty(A) gives.
C17_FocusOutValidatesItsAttribute ==
    [][\A a \in Declared(validations) :
          FocusOutHandlerRuns(a) =>
              /\ ReplaceFirst(ShouldValidatePath(a)) = a
              /\ validationErrors'
                     = validateProperty(Pass(validationErrors), validations, value, a).errors
      ]_vars

\* C19: _didValidateAllOnce is a latch: every validate() sets it as its first
\* statement (also one that throws), no step resets it, and while it is set every
\* change of the value of an attribute that has a value-change observer enters
\* validateProperty, touched or not, whatever validations has been set to since.
C19_ValidatedOnceIsLatched ==
    [][/\ _didValidateAllOnce => _didValidateAllOnce'
       /\ Validate => _didValidateAllOnce'
       /\ \A a \in Attrs :
              (_didValidateAllOnce /\ value'[a] # value[a] /\ observerValueChange[a] > 0)
                  => last'.calls = 1
      ]_vars

\* C19 witness: validate() has run, validations was reassigned after the wiring of
\* an attribute it no longer declares, no attribute was ever touched, and the last
\* step was a value change that entered validateProperty.
C19_Witness ==
    /\ _didValidateAllOnce
    /\ \A k \in Keys : ~flags[k]
    /\ validations = OnlyName
    /\ observerValueChange[Flagged] = 1
    /\ ~validateOnFocusOut
    /\ last.op = "other" /\ last.calls = 1

\* C20: a validateProperty(), called or run by a value-change or focus-out
\* observer, changes neither _didValidateAllOnce nor a shouldValidate flag: only
\* validate() changes the former and only a focus event of a widget the latter.
\* After validateProperty(A) on an untouched object the gates are still closed,
\* and a value change with its gate closed enters no validateProperty.
C20_ValidatePropertyKeepsGates ==
    [][/\ \A a \in Attrs : ValidateProperty(a) => UNCHANGED <<_didValidateAllOnce, flags>>
       /\ ValueStep => UNCHANGED <<_didValidateAllOnce, flags>>
       /\ _didValidateAllOnce' # _didValidateAllOnce => last'.op = "validate"
       /\ flags' # flags => FocusStep
       /\ \A a \in Attrs : (value'[a] # value[a] /\ ~Gate(a)) =>
              (last'.calls = 0 /\ validationErrors' = validationErrors)
      ]_vars

\* C20 witness: validateProperty() has just run on an object that was never
\* touched and never fully validated, and recorded a message; value-change
\* validation is enabled and both gates of every attribute are still closed.
C20_Witness ==
    /\ last.op = "validateProperty"
    /\ validateOnValueChange
    /\ \E a \in Attrs : validationErrors[a] # <<>>
    /\ \A a \in Attrs : ~Gate(a)

\* C18 (of SpecWriting): nothing guards an attribute that is being validated.
\* When the validator of 'name' changes 'name' while 'name' has a value-change
\* observer and its gate is open, validateProperty('name') is entered again with
\* the call around it still in progress; and with the validator that always sets
\* another value no call ever returns: every step adds one more.
C18_ReentersWhileValidating ==
    [][/\ (nesting > 0 /\ value'[Name] # value[Name] /\ observerValueChange[Name] > 0 /\ Gate(Name))
              => nesting' = nesting + 1
       /\ (nesting > 0 /\ validations = Rewriting /\ observerValueChange[Name] > 0 /\ Gate(Name))
              => nesting' = nesting + 1
       /\ (nesting > 0 /\ ~(observerValueChange[Name] > 0 /\ Gate(Name)))
              => nesting' <= nesting
      ]_vars

\* C18 witness: with the validator that always sets another value as many calls of
\* validateProperty('name') are in progress as the call stack holds.
C18_Witness ==
    /\ validations = Rewriting
    /\ nesting = MaxNesting
    /\ frame = "rules"

====
